---- MODULE Spec2Model ----
(***************************************************************************)
(* A model of csv-hasher/hashify.py: get_hash_function, hash_csv_column    *)
(* and main.  One run of the tool is a sequence of steps, one per          *)
(* statement that touches a file, a stream or the exit status.             *)
(*                                                                         *)
(* Strings whose letters matter (algorithm names) are sequences of         *)
(* one-character strings.  A CSV cell is a sequence of strings too: <<>>   *)
(* is the empty cell.  A CSV file is the sequence of records csv.reader    *)
(* yields for it, header first; a blank line is the record <<>>.           *)
(* input_file and output_file name two different files.                    *)
(***************************************************************************)
EXTENDS Integers, Sequences, FiniteSets, TLC

VARIABLES
    pc,             \* the statement the run is at
    argv,           \* main: the shape of the command line
    algorithm,      \* the algorithm name given
    column_name,    \* the column name given
    inputExists,    \* whether a file exists at input_file
    inputRecords,   \* the records of the file at input_file, header first
    outInitial,     \* the file at output_file before the run
    hash_func,      \* hash_csv_column: the resolved hash function
    fieldnames,     \* reader.fieldnames: <<>> is None, <<names>> a header
    line,           \* the number of input records the reader has consumed
    openFiles,      \* the files currently held open
    outOpened,      \* whether output_file has been opened for writing
    outFile,        \* the file at output_file: exists, records, torn
    stdout,         \* the messages printed to standard output
    stderr,         \* the messages printed to standard error
    exitStatus      \* <<>> while running, <<code>> once the process exited

inputs == <<argv, algorithm, column_name, inputExists, inputRecords, outInitial>>

vars == <<pc, inputs, hash_func, fieldnames, line, openFiles, outOpened, outFile,
          stdout, stderr, exitStatus>>

\* The largest number of lines that follow the header line in an input file.
MaxRows == 2

Range(s) == {s[i] : i \in DOMAIN s}

Min(a, b) == IF a < b THEN a ELSE b

(***************************************************************************)
(* str.lower() and str.upper() on the letters the algorithm names use.     *)
(***************************************************************************)
CasePairs ==
    { <<"A", "a">>, <<"B", "b">>, <<"D", "d">>, <<"E", "e">>, <<"H", "h">>,
      <<"K", "k">>, <<"L", "l">>, <<"M", "m">>, <<"S", "s">> }

LowerChar(c) ==
    IF \E p \in CasePairs : p[1] = c
    THEN (CHOOSE p \in CasePairs : p[1] = c)[2]
    ELSE c

UpperChar(c) ==
    IF \E p \in CasePairs : p[2] = c
    THEN (CHOOSE p \in CasePairs : p[2] = c)[1]
    ELSE c

lower(s) == [i \in 1..Len(s) |-> LowerChar(s[i])]

upper(s) == [i \in 1..Len(s) |-> UpperChar(s[i])]

(***************************************************************************)
(* Messages written to stdout and stderr: the fixed text, the values       *)
(* formatted into it, and the list joined with ", " (if any).              *)
(***************************************************************************)
Msg(text, subject, listed) ==
    [text |-> text, subject |-> subject, listed |-> listed]

(***************************************************************************)
(* get_hash_function: the dict of supported algorithms, in insertion       *)
(* order, and the lookup of the lowercased name.                           *)
(***************************************************************************)
algorithms ==
    << [name |-> <<"m", "d", "5">>,                     func |-> "hashlib.md5"],
       [name |-> <<"s", "h", "a", "1">>,                func |-> "hashlib.sha1"],
       [name |-> <<"s", "h", "a", "2", "5", "6">>,      func |-> "hashlib.sha256"],
       [name |-> <<"s", "h", "a", "5", "1", "2">>,      func |-> "hashlib.sha512"],
       [name |-> <<"b", "l", "a", "k", "e", "2", "b">>, func |-> "hashlib.blake2b"],
       [name |-> <<"b", "l", "a", "k", "e", "2", "s">>, func |-> "hashlib.blake2s"] >>

AlgorithmKeys == [i \in DOMAIN algorithms |-> algorithms[i].name]

UnsupportedAlgorithm(name) ==
    Msg("Unsupported algorithm: {}. Supported: {}", name, AlgorithmKeys)

\* The key looked up in the dict; a lookup of the name as given misses
\* every name that is not already lowercase.
LookupKey_asGiven(name) == name

LookupKey(name) == lower(name)

get_hash_function(name) ==
    LET key == LookupKey(name)
        hit == {i \in DOMAIN algorithms : algorithms[i].name = key}
    IN  IF hit = {}
        THEN [raised |-> TRUE, func |-> "", error |-> UnsupportedAlgorithm(name)]
        ELSE [raised |-> FALSE, func |-> algorithms[CHOOSE i \in hit : TRUE].func,
              error |-> Msg("", <<>>, <<>>)]

(***************************************************************************)
(* hashlib and str.encode: the digest of a value is a non-empty cell that  *)
(* records the function and the bytes it was computed from.                *)
(***************************************************************************)
encode(value) == <<"utf-8">> \o value

hexdigest(func, bytes) == <<"hexdigest", func>> \o bytes

(***************************************************************************)
(* csv.DictReader and csv.DictWriter.                                      *)
(***************************************************************************)
\* Python's None as a dict value (DictReader's restval) and as a dict key
\* (DictReader's restkey).
None == <<"<None>">>

RestKey == "<None>"

\* DictReader.__next__ skips blank records: the index of the next record
\* after the `consumed` ones that is not [], or 0 when the reader is exhausted.
NextRecordIndex_noSkip(records, consumed) ==
    IF consumed < Len(records) THEN consumed + 1 ELSE 0

NextRecordIndex(records, consumed) ==
    LET rest == {i \in (consumed + 1)..Len(records) : records[i] # <<>>}
    IN  IF rest = {} THEN 0 ELSE CHOOSE i \in rest : \A j \in rest : i <= j

\* DictReader.__next__: dict(zip(fieldnames, row)), later duplicates of a
\* name overwriting earlier ones; surplus fields go under restkey, missing
\* fields are set to restval.
DictReaderRow(names, row) ==
    LET lf == Len(names)
        lr == Len(row)
        zipped == 1..Min(lf, lr)
        keys == Range(names) \cup (IF lf < lr THEN {RestKey} ELSE {})
        last(k) == CHOOSE i \in zipped :
                      /\ names[i] = k
                      /\ \A j \in zipped : names[j] = k => j <= i
    IN  [k \in keys |->
            IF k = RestKey
            THEN <<"<list>">>
            ELSE IF \E i \in (lr + 1)..lf : names[i] = k
                 THEN None
                 ELSE row[last(k)]]

\* DictWriter._dict_to_list: the keys of the row that are no fieldnames.
WrongFields(names, rowdict) == DOMAIN rowdict \ Range(names)

\* DictWriter._dict_to_list and csv.writer: one cell per fieldname, None
\* written as the empty cell.
DictToList(names, rowdict) ==
    [i \in 1..Len(names) |->
        IF rowdict[names[i]] = None THEN <<>> ELSE rowdict[names[i]]]

\* Lines 50-53: the target value is replaced by its digest unless it is
\* falsy (None or the empty string).
HashRow(rowdict, column, func) ==
    LET original_value == rowdict[column]
    IN  IF original_value # None /\ original_value # <<>>
        THEN [rowdict EXCEPT ![column] = hexdigest(func, encode(original_value))]
        ELSE rowdict

\* What the loop body writes for one input record.
TransformRecord(names, row, column, func) ==
    DictToList(names, HashRow(DictReaderRow(names, row), column, func))

(***************************************************************************)
(* The inputs of a run.                                                    *)
(***************************************************************************)
SeqsUpTo(S, n) == UNION {[1..k -> S] : k \in 0..n}

Cells == {<<>>, <<"x">>}

\* The column to hash, and the header lines it is looked up in: no names,
\* headers without it, with it in either position, with a name that
\* differs from it in case only, and with a name that occurs twice.
ColumnArgs == {"email"}

Headers ==
    { <<>>, <<"id">>, <<"email">>, <<"id", "email">>, <<"email", "id">>,
      <<"Email", "id">>, <<"email", "email">>, <<"id", "id", "email">> }

\* The lines tried under a header of n names: every line of n cells, the
\* lines that stop short (the blank line among them) and a line with one
\* cell too many.
Lines(n) ==
    [1..n -> Cells]
        \cup {[i \in 1..k |-> <<"x">>] : k \in 0..(n - 1)}
        \cup {[i \in 1..(n + 1) |-> <<"x">>]}

InputFiles ==
    {<<>>} \cup UNION {{<<h>> \o rows : rows \in SeqsUpTo(Lines(Len(h)), MaxRows)} : h \in Headers}

AlgorithmArgs ==
    { <<"m", "d", "5">>, <<"S", "h", "a", "2", "5", "6">>, <<"s", "h", "a">> }

Absent == [exists |-> FALSE, records |-> <<>>, torn |-> FALSE]

OldOutput == [exists |-> TRUE, records |-> << <<"old">> >>, torn |-> FALSE]

\* Line 75: the choices argparse accepts for -a/--algorithm, as spelled.
choices ==
    { <<"m", "d", "5">>, <<"s", "h", "a", "1">>, <<"s", "h", "a", "2", "5", "6">>,
      <<"s", "h", "a", "5", "1", "2">>, <<"b", "l", "a", "k", "e", "2", "b">>,
      <<"b", "l", "a", "k", "e", "2", "s">> }

Init ==
    /\ pc \in {"parse_args", "get_hash_function"}
    /\ argv \in {"ok", "help", "missing"}
    /\ pc = "get_hash_function" => argv = "ok"
    /\ algorithm \in AlgorithmArgs
    /\ column_name \in ColumnArgs
    /\ inputExists \in BOOLEAN
    /\ inputRecords \in InputFiles
    /\ (~inputExists \/ argv # "ok") => inputRecords = <<>>
    /\ outInitial \in {Absent, OldOutput}
    /\ hash_func = ""
    /\ fieldnames = <<>>
    /\ line = 0
    /\ openFiles = {}
    /\ outOpened = FALSE
    /\ outFile = outInitial
    /\ stdout = <<>>
    /\ stderr = <<>>
    /\ exitStatus = <<>>

(***************************************************************************)
(* Exceptions.  Lines 58-66: each handler prints the exception to stderr   *)
(* and calls sys.exit(1); the with blocks the exception leaves close the   *)
(* files they acquired.                                                    *)
(***************************************************************************)
HandlerPrint(type, error) ==
    IF type = "FileNotFoundError"
    THEN Msg("Error: File not found - {}", <<error.text>> \o error.subject, error.listed)
    ELSE Msg("Error: {}", <<error.text>> \o error.subject, error.listed)

\* The files still open once the with blocks have been left; a file opened
\* without a with block would stay open.
WithExit_leak(files) == files

WithExit(files) == {}

\* A handler that prints the error and falls off the end of the program.
Raise_noExit(type, error) ==
    /\ stderr' = Append(stderr, HandlerPrint(type, error))
    /\ openFiles' = WithExit(openFiles)
    /\ pc' = "exit"
    /\ exitStatus' = <<0>>

Raise(type, error) ==
    /\ stderr' = Append(stderr, HandlerPrint(type, error))
    /\ openFiles' = WithExit(openFiles)
    /\ pc' = "exit"
    /\ exitStatus' = <<1>>

(***************************************************************************)
(* main, lines 69-85.                                                      *)
(***************************************************************************)
\* Line 78: argparse prints the help and exits 0, or rejects the command
\* line (a missing positional argument, an algorithm outside the choices)
\* with a usage error and exit status 2.
ParseArgs ==
    /\ pc = "parse_args"
    /\ \/ /\ argv = "help"
          /\ stdout' = Append(stdout, Msg("usage: {}", <<>>, <<>>))
          /\ pc' = "exit"
          /\ exitStatus' = <<0>>
          /\ UNCHANGED stderr
       \/ /\ argv = "missing" \/ (argv = "ok" /\ algorithm \notin choices)
          /\ stderr' = Append(stderr, Msg("usage: {} error: {}", <<>>, <<>>))
          /\ pc' = "exit"
          /\ exitStatus' = <<2>>
          /\ UNCHANGED stdout
       \/ /\ argv = "ok"
          /\ algorithm \in choices
          /\ pc' = "exists_check"
          /\ UNCHANGED <<stdout, stderr, exitStatus>>
    /\ UNCHANGED <<inputs, hash_func, fieldnames, line, openFiles, outOpened, outFile>>

\* Lines 81-85.
CheckInputExists ==
    /\ pc = "exists_check"
    /\ \/ /\ ~inputExists
          /\ stderr' = Append(stderr, Msg("Error: Input file '{}' does not exist",
                                          <<"input_file">>, <<>>))
          /\ pc' = "exit"
          /\ exitStatus' = <<1>>
       \/ /\ inputExists
          /\ pc' = "get_hash_function"
          /\ UNCHANGED <<stderr, exitStatus>>
    /\ UNCHANGED <<inputs, hash_func, fieldnames, line, openFiles, outOpened, outFile,
                   stdout>>

(***************************************************************************)
(* hash_csv_column, lines 36-66.                                           *)
(***************************************************************************)
\* Line 37.
ResolveHashFunction ==
    /\ pc = "get_hash_function"
    /\ LET r == get_hash_function(algorithm)
       IN  \/ /\ r.raised
              /\ Raise("ValueError", r.error)
              /\ UNCHANGED hash_func
           \/ /\ ~r.raised
              /\ hash_func' = r.func
              /\ pc' = "open_input"
              /\ UNCHANGED <<stderr, openFiles, exitStatus>>
    /\ UNCHANGED <<inputs, fieldnames, line, outOpened, outFile, stdout>>

\* Line 39.
\* The output opened for writing before the input is opened.
OpenInput_outputFirst ==
    /\ pc = "open_input"
    /\ outOpened' = TRUE
    /\ outFile' = [exists |-> TRUE, records |-> <<>>, torn |-> FALSE]
    /\ \/ /\ ~inputExists
          /\ Raise("FileNotFoundError",
                   Msg("No such file or directory: {}", <<"input_file">>, <<>>))
       \/ /\ inputExists
          /\ openFiles' = openFiles \cup {"input_file", "output_file"}
          /\ pc' = "fieldnames"
          /\ UNCHANGED <<stderr, exitStatus>>
    /\ UNCHANGED <<inputs, hash_func, fieldnames, line, stdout>>

OpenInput ==
    /\ pc = "open_input"
    /\ \/ /\ ~inputExists
          /\ Raise("FileNotFoundError",
                   Msg("No such file or directory: {}", <<"input_file">>, <<>>))
       \/ /\ inputExists
          /\ openFiles' = openFiles \cup {"input_file"}
          /\ pc' = "fieldnames"
          /\ UNCHANGED <<stderr, exitStatus>>
    /\ UNCHANGED <<inputs, hash_func, fieldnames, line, outOpened, outFile, stdout>>

\* Line 42: column_name in reader.fieldnames; a test of the header being
\* there at all accepts any column.
ColumnPresent_anyHeader(column, names) == names # <<>>

ColumnPresent(column, names) == column \in Range(names)

ColumnNotFound(column, names) ==
    Msg("Column '{}' not found in CSV. Available columns: {}", <<column>>,
        [i \in DOMAIN names |-> <<names[i]>>])

\* Lines 40-43: reader.fieldnames reads the first record; an empty file has
\* none, fieldnames stays None and the membership test raises TypeError.
\* The output opened together with the input, before the column is checked.
ReadFieldnames_outputFirst ==
    /\ pc = "fieldnames"
    /\ outOpened' = TRUE
    /\ outFile' = [exists |-> TRUE, records |-> <<>>, torn |-> FALSE]
    /\ IF inputRecords = <<>>
       THEN /\ Raise("TypeError",
                     Msg("argument of type 'NoneType' is not iterable", <<>>, <<>>))
            /\ UNCHANGED <<fieldnames, line>>
       ELSE /\ fieldnames' = <<inputRecords[1]>>
            /\ line' = 1
            /\ IF ColumnPresent(column_name, inputRecords[1])
               THEN /\ pc' = "open_output"
                    /\ UNCHANGED <<stderr, openFiles, exitStatus>>
               ELSE Raise("ValueError", ColumnNotFound(column_name, inputRecords[1]))
    /\ UNCHANGED <<inputs, hash_func, stdout>>

ReadFieldnames ==
    /\ pc = "fieldnames"
    /\ \/ /\ inputRecords = <<>>
          /\ Raise("TypeError",
                   Msg("argument of type 'NoneType' is not iterable", <<>>, <<>>))
          /\ UNCHANGED <<fieldnames, line>>
       \/ /\ inputRecords # <<>>
          /\ fieldnames' = <<inputRecords[1]>>
          /\ line' = 1
          /\ \/ /\ ColumnPresent(column_name, inputRecords[1])
                /\ pc' = "open_output"
                /\ UNCHANGED <<stderr, openFiles, exitStatus>>
             \/ /\ ~ColumnPresent(column_name, inputRecords[1])
                /\ Raise("ValueError", ColumnNotFound(column_name, inputRecords[1]))
    /\ UNCHANGED <<inputs, hash_func, outOpened, outFile, stdout>>

\* Line 45: open(output_file, 'w') creates or truncates the file.
OpenOutput ==
    /\ pc = "open_output"
    /\ outOpened' = TRUE
    /\ outFile' = [exists |-> TRUE, records |-> <<>>, torn |-> FALSE]
    /\ openFiles' = openFiles \cup {"output_file"}
    /\ pc' = "writeheader"
    /\ UNCHANGED <<inputs, hash_func, fieldnames, line, stdout, stderr, exitStatus>>

\* Lines 46-47.
WriteHeader ==
    /\ pc = "writeheader"
    /\ outFile' = [outFile EXCEPT !.records = Append(@, fieldnames[1])]
    /\ pc' = "next_row"
    /\ UNCHANGED <<inputs, hash_func, fieldnames, line, openFiles, outOpened,
                   stdout, stderr, exitStatus>>

\* Line 54: writer.writerow(row).
\* The write moved under the test of line 51, so that a row whose target
\* is empty is not written.
WriteRow_insideIf(records, names, rowdict) ==
    IF \E i \in DOMAIN names : names[i] = column_name /\ rowdict[names[i]] \in {None, <<>>}
    THEN records
    ELSE Append(records, DictToList(names, rowdict))

WriteRow(records, names, rowdict) == Append(records, DictToList(names, rowdict))

\* Lines 49-54: one turn of the loop, or its end, where both with blocks
\* are left and the files closed.
NextRow ==
    /\ pc = "next_row"
    /\ LET next == NextRecordIndex(inputRecords, line)
           names == fieldnames[1]
       IN  \/ /\ next = 0
              /\ line' = Len(inputRecords)
              /\ openFiles' = WithExit(openFiles)
              /\ pc' = "print_success"
              /\ UNCHANGED <<outFile, stderr, exitStatus>>
           \/ /\ next # 0
              /\ line' = next
              /\ LET row == HashRow(DictReaderRow(names, inputRecords[next]),
                                    column_name, hash_func)
                 IN  \/ /\ WrongFields(names, row) # {}
                        /\ Raise("ValueError",
                                 Msg("dict contains fields not in fieldnames: {}",
                                     <<"None">>, <<>>))
                        /\ UNCHANGED outFile
                     \/ /\ WrongFields(names, row) = {}
                        /\ outFile' = [outFile EXCEPT !.records = WriteRow(@, names, row)]
                        /\ UNCHANGED <<pc, stderr, openFiles, exitStatus>>
    /\ UNCHANGED <<inputs, hash_func, fieldnames, outOpened, stdout>>

\* Line 56.
PrintSuccess ==
    /\ pc = "print_success"
    /\ stdout' = Append(stdout,
                        Msg("Successfully hashed column '{}' using {} and saved to '{}'",
                            <<column_name>> \o upper(algorithm) \o <<"output_file">>, <<>>))
    /\ pc' = "exit"
    /\ exitStatus' = <<0>>
    /\ UNCHANGED <<inputs, hash_func, fieldnames, line, openFiles, outOpened, outFile,
                   stderr>>

(***************************************************************************)
(* The failures of the environment: what open, read, write and print can   *)
(* raise at each statement.  A failed write may leave part of the record   *)
(* in the file (torn).                                                     *)
(***************************************************************************)
FailuresAt(at) ==
    CASE at = "open_input"    -> IF inputExists
                                 THEN {[type |-> "PermissionError", write |-> FALSE]}
                                 ELSE {}
      [] at = "fieldnames"    -> {[type |-> "UnicodeDecodeError", write |-> FALSE]}
      [] at = "open_output"   -> {[type |-> "FileNotFoundError", write |-> FALSE],
                                  [type |-> "PermissionError", write |-> FALSE]}
      [] at = "writeheader"   -> {[type |-> "OSError", write |-> TRUE]}
      [] at = "next_row"      -> {[type |-> "UnicodeDecodeError", write |-> FALSE],
                                  [type |-> "OSError", write |-> TRUE]}
      [] at = "print_success" -> {[type |-> "OSError", write |-> FALSE]}
      [] OTHER                -> {}

IOFailure ==
    /\ \E f \in FailuresAt(pc), torn \in BOOLEAN :
          /\ torn => f.write
          /\ outFile' = [outFile EXCEPT !.torn = torn]
          /\ Raise(f.type, Msg(f.type, <<>>, <<>>))
    /\ UNCHANGED <<inputs, hash_func, fieldnames, line, outOpened, stdout>>

Next ==
    \/ ParseArgs
    \/ CheckInputExists
    \/ ResolveHashFunction
    \/ OpenInput
    \/ ReadFieldnames
    \/ OpenOutput
    \/ WriteHeader
    \/ NextRow
    \/ PrintSuccess
    \/ IOFailure

Spec == Init /\ [][Next]_vars

(***************************************************************************)
(* get_hash_function on its own: the names tried are every spelling of a   *)
(* supported name in upper and lower case, every proper prefix of one, and *)
(* every supported name with one more character.                           *)
(***************************************************************************)
RECURSIVE CaseVariants(_)
CaseVariants(name) ==
    IF name = <<>>
    THEN {<<>>}
    ELSE {<<c>> \o rest : c \in {LowerChar(Head(name)), UpperChar(Head(name))},
                          rest \in CaseVariants(Tail(name))}

NameCandidates ==
    UNION {CaseVariants(n) : n \in choices}
        \cup UNION {{SubSeq(n, 1, k) : k \in 0..(Len(n) - 1)} : n \in choices}
        \cup {n \o <<c>> : n \in choices, c \in {"5", "s", " "}}

InitResolve ==
    /\ pc = "get_hash_function"
    /\ argv = "ok"
    /\ algorithm \in NameCandidates
    /\ column_name = "email"
    /\ inputExists = TRUE
    /\ inputRecords = << <<"email">> >>
    /\ outInitial = Absent
    /\ hash_func = ""
    /\ fieldnames = <<>>
    /\ line = 0
    /\ openFiles = {}
    /\ outOpened = FALSE
    /\ outFile = outInitial
    /\ stdout = <<>>
    /\ stderr = <<>>
    /\ exitStatus = <<>>

SpecResolve == InitResolve /\ [][ResolveHashFunction]_vars

(***************************************************************************)
(* The vocabulary of the properties.                                       *)
(***************************************************************************)
\* Two names that differ in the case of their letters at most.
SameName(a, b) ==
    /\ Len(a) = Len(b)
    /\ \A i \in 1..Len(a) :
          a[i] = b[i] \/ <<a[i], b[i]>> \in CasePairs \/ <<b[i], a[i]>> \in CasePairs

Supported(name) == \E c \in choices : SameName(name, c)

\* The hash function a supported name stands for.
FunctionOf(name) ==
    LET c == CHOOSE k \in choices : SameName(name, k)
    IN  CASE c = <<"m", "d", "5">>                     -> "hashlib.md5"
          [] c = <<"s", "h", "a", "1">>                -> "hashlib.sha1"
          [] c = <<"s", "h", "a", "2", "5", "6">>      -> "hashlib.sha256"
          [] c = <<"s", "h", "a", "5", "1", "2">>      -> "hashlib.sha512"
          [] c = <<"b", "l", "a", "k", "e", "2", "b">> -> "hashlib.blake2b"
          [] c = <<"b", "l", "a", "k", "e", "2", "s">> -> "hashlib.blake2s"

NonBlank(record) == record # <<>>

\* The lines of the input after the header, and those of them that are
\* not blank.
DataLines == IF inputRecords = <<>> THEN <<>> ELSE Tail(inputRecords)

DataRows == SelectSeq(DataLines, NonBlank)

\* The rows of the output after its header.
OutRows == IF outFile.records = <<>> THEN <<>> ELSE Tail(outFile.records)

Exited(code) == pc = "exit" /\ exitStatus = <<code>>

\* The run ended in the argument parser (help or usage error), or at the
\* existence check of main.
ParserExited ==
    \E m \in Range(stdout) \cup Range(stderr) :
        m.text \in {"usage: {}", "usage: {} error: {}"}

ExistsCheckExited ==
    \E m \in Range(stderr) : m.text = "Error: Input file '{}' does not exist"

SuccessPrinted ==
    \E m \in Range(stdout) :
        m.text = "Successfully hashed column '{}' using {} and saved to '{}'"

Succeeded == Exited(0) /\ SuccessPrinted

Header == inputRecords[1]

\* The cell the claims expect in a target column whose input cell is
\* `original` (a cell the line does not have counts as empty).
ExpectedDigest(original) ==
    IF original = <<>>
    THEN <<>>
    ELSE hexdigest(FunctionOf(algorithm), encode(original))

CellOf(record, i) == IF i <= Len(record) THEN record[i] ELSE <<>>

(***************************************************************************)
(* C1.  As claimed: a run that ends in success leaves an output whose      *)
(* header is the input's header and which has as many data rows as the     *)
(* input has lines after its header.                                       *)
(***************************************************************************)
C1_RowCountEqualsInputLines ==
    Succeeded =>
        /\ outFile.records # <<>>
        /\ Head(outFile.records) = Header
        /\ Len(OutRows) = Len(DataLines)

\* C1, amended: a run that ends in success leaves an output whose header is
\* the input's header, names in the same order, and which has as many data
\* rows as the input has non-blank lines after its header (the reader
\* drops blank lines).
C1_RowCountEqualsNonBlankLines ==
    Succeeded =>
        /\ outFile.records # <<>>
        /\ Head(outFile.records) = Header
        /\ Len(OutRows) = Len(DataRows)
        /\ ~outFile.torn

C1_Witness ==
    /\ Succeeded
    /\ Len(DataLines) = 2
    /\ Len(DataRows) = 1
    /\ Len(Header) = 2

(***************************************************************************)
(* C2.  In the output of a successful run, every cell of a row that is not *)
(* under the target column's name equals the cell at the same position of  *)
(* the input row it was made from.                                         *)
(***************************************************************************)
C2_NonTargetCellsUnchanged ==
    Succeeded =>
        \A k \in 1..Min(Len(OutRows), Len(DataRows)) :
            \A i \in 1..Min(Len(Header), Len(DataRows[k])) :
                Header[i] # column_name => OutRows[k][i] = DataRows[k][i]

(***************************************************************************)
(* C3.  In every output row, the cell under the target column's name is    *)
(* the digest, by the selected algorithm, of the UTF-8 encoding of the     *)
(* input cell at that position, or empty when that input cell is empty.    *)
(***************************************************************************)
C3_TargetCellIsDigestOfOriginal ==
    (outOpened /\ ~outFile.torn) =>
        \A k \in 1..Min(Len(OutRows), Len(DataRows)) :
            \A i \in 1..Len(Header) :
                Header[i] = column_name =>
                    OutRows[k][i] = ExpectedDigest(CellOf(DataRows[k], i))

(***************************************************************************)
(* C4.  Once the header has been read and the column name is not one of    *)
(* its names (compared exactly), the process has exited with status 1, the *)
(* one message on stderr names the column and lists the header's names in  *)
(* order, and no success message was printed.                              *)
(***************************************************************************)
C4_MissingColumnExits1 ==
    (fieldnames # <<>> /\ column_name \notin Range(fieldnames[1])) =>
        /\ Exited(1)
        /\ Len(stderr) = 1
        /\ column_name \in Range(stderr[1].subject)
        /\ stderr[1].listed = [i \in DOMAIN Header |-> <<Header[i]>>]
        /\ stdout = <<>>

C4_Witness ==
    /\ fieldnames = << <<"Email", "id">> >>
    /\ column_name = "email"
    /\ Exited(1)

(***************************************************************************)
(* C5.  With no file at the input path, the output file is never opened,   *)
(* created or truncated, the run never gets past the opening of the input, *)
(* and an exit at the existence check of main or in the FileNotFoundError  *)
(* handler is with status 1.                                               *)
(***************************************************************************)
C5_MissingInputLeavesOutputAlone ==
    ~inputExists =>
        /\ ~outOpened
        /\ outFile = outInitial
        /\ "output_file" \notin openFiles
        /\ pc \in {"parse_args", "exists_check", "get_hash_function", "open_input", "exit"}
        /\ (pc = "exit" /\ ~ParserExited) =>
              /\ exitStatus = <<1>>
              /\ Len(stderr) = 1
              /\ stdout = <<>>
              /\ Supported(algorithm) =>
                    stderr[1].text \in {"Error: Input file '{}' does not exist",
                                        "Error: File not found - {}"}

C5_Witness ==
    /\ ~inputExists
    /\ Exited(1)
    /\ stderr # <<>>
    /\ stderr[1].text = "Error: File not found - {}"
    /\ outInitial = OldOutput

ErrorTexts == {"Error: {}", "Error: File not found - {}",
               "Error: Input file '{}' does not exist"}

\* The two outcomes of the claim: exit 0 with every row written and the
\* success message printed, or exit 1 with one error message on stderr.
SuccessOutcome ==
    /\ exitStatus = <<0>>
    /\ Len(stdout) = 1
    /\ SuccessPrinted
    /\ stderr = <<>>
    /\ Len(OutRows) = Len(DataRows)

ErrorOutcome ==
    /\ exitStatus = <<1>>
    /\ Len(stderr) = 1
    /\ stderr[1].text \in ErrorTexts
    /\ stdout = <<>>

(***************************************************************************)
(* C6.  As claimed: every exit of the process is one of the two outcomes,  *)
(* status 0 on success or status 1 with the error on stderr.               *)
(***************************************************************************)
C6_ExitIsZeroOrOne ==
    pc = "exit" => (SuccessOutcome \/ ErrorOutcome)

\* C6, amended: a run whose command line the argument parser accepts ends
\* in exactly one of the two outcomes, status 0 on success or status 1 on a
\* validation or runtime error with the error on stderr; the parser itself
\* ends a run it rejects (an algorithm that is not one of the choices as
\* spelled, a missing argument) with status 2 and a usage error on stderr,
\* and a request for help with status 0.  No status is set before the exit,
\* a run that has not exited can take a step, and an exit is final.
C6_ExitOutcomes ==
    /\ pc # "exit" => (exitStatus = <<>> /\ ENABLED Next)
    /\ pc = "exit" => ~ENABLED Next
    /\ pc = "exit" =>
          IF ParserExited
          THEN /\ ~outOpened
               /\ \/ argv = "help" /\ exitStatus = <<0>> /\ stderr = <<>>
                  \/ /\ argv = "missing" \/ algorithm \notin choices
                     /\ exitStatus = <<2>>
                     /\ Len(stderr) = 1
                     /\ stdout = <<>>
          ELSE SuccessOutcome \/ ErrorOutcome

C6_Witness ==
    /\ pc = "exit"
    /\ argv = "ok"
    /\ Supported(algorithm)
    /\ algorithm \notin choices
    /\ exitStatus = <<2>>

(***************************************************************************)
(* C7.  In every terminal state, and already when the success message is   *)
(* about to be printed, neither file is open.                              *)
(***************************************************************************)
C7_FilesClosedAtExit ==
    pc \in {"exit", "print_success"} => openFiles = {}

C7_Witness ==
    /\ Exited(1)
    /\ outOpened
    /\ Len(OutRows) = 1
    /\ Len(DataRows) = 2

(***************************************************************************)
(* C8.  Once get_hash_function has been called: a name that is a supported *)
(* name up to the case of its letters has resolved to that name's hash     *)
(* function and nothing was reported; any other name has ended the run     *)
(* with status 1, no function, and one error on stderr that carries the    *)
(* name and lists exactly the supported names.                             *)
(***************************************************************************)
C8_ResolverIsTotalAndCaseInsensitive ==
    pc # "get_hash_function" =>
        IF Supported(algorithm)
        THEN /\ hash_func = FunctionOf(algorithm)
             /\ pc = "open_input"
             /\ stderr = <<>>
             /\ exitStatus = <<>>
        ELSE /\ hash_func = ""
             /\ Exited(1)
             /\ Len(stderr) = 1
             /\ stderr[1].subject = <<"Unsupported algorithm: {}. Supported: {}">> \o algorithm
             /\ Range(stderr[1].listed) = choices
             /\ Len(stderr[1].listed) = Cardinality(choices)

C8_Witness ==
    /\ pc = "open_input"
    /\ algorithm = <<"B", "l", "A", "k", "E", "2", "b">>
    /\ hash_func = "hashlib.blake2b"

(***************************************************************************)
(* C9.  As claimed: at every point after the output file has been opened,  *)
(* the output is the header followed by the transformed images of the      *)
(* first lines of the input that follow its header, in order.              *)
(***************************************************************************)
C9_HeaderThenPrefixOfLines ==
    (outOpened /\ ~outFile.torn) =>
        /\ outFile.records # <<>>
        /\ Head(outFile.records) = Header
        /\ Len(OutRows) <= Len(DataLines)
        /\ \A k \in 1..Len(OutRows) :
              OutRows[k] = TransformRecord(Header, DataLines[k], column_name, hash_func)

\* C9, amended: after the output file has been opened it is empty until the
\* header is written; from then on it is the header followed by the
\* transformed images of the first non-blank lines of the input that
\* follow its header, in order (blank lines are skipped, no other line is
\* skipped, reordered or duplicated), also when the run aborts between rows.
C9_HeaderThenPrefixOfRows ==
    (outOpened /\ ~outFile.torn) =>
        /\ outFile.exists
        /\ outFile.records = <<>> => pc \in {"writeheader", "exit"}
        /\ outFile.records # <<>> =>
              /\ Head(outFile.records) = Header
              /\ Len(OutRows) <= Len(DataRows)
              /\ \A k \in 1..Len(OutRows) :
                    OutRows[k] = TransformRecord(Header, DataRows[k], column_name, hash_func)

C9_Witness ==
    /\ Exited(1)
    /\ outOpened
    /\ ~outFile.torn
    /\ Len(OutRows) = 1
    /\ Len(DataLines) = 2
    /\ DataLines[1] # <<>>
    /\ DataLines[2] # <<>>

(***************************************************************************)
(* C10.  When the algorithm name is unsupported, or the input has no       *)
(* header or one without the target column, the output file is never       *)
(* opened: it keeps the content it had, or stays absent, and               *)
(* hash_csv_column ends with status 1.                                     *)
(***************************************************************************)
ValidationFails ==
    \/ ~Supported(algorithm)
    \/ inputExists /\ (inputRecords = <<>> \/ column_name \notin Range(Header))

C10_ValidationBeforeOutput ==
    ValidationFails =>
        /\ ~outOpened
        /\ "output_file" \notin openFiles
        /\ outFile = outInitial
        /\ pc \notin {"open_output", "writeheader", "next_row", "print_success"}
        /\ (pc = "exit" /\ ~ParserExited) => exitStatus = <<1>>

C10_Witness ==
    /\ ValidationFails
    /\ Supported(algorithm)
    /\ fieldnames # <<>>
    /\ Exited(1)
    /\ outInitial = OldOutput
    /\ outFile = OldOutput

====
